---- MODULE Spec2Model ----
\* A model of vrep_object.py: the log_and_retry decorator, the VRepError
\* return-code decoder and VRepDepthSensor.get_dilated_depth_buffer.
\*
\* Depth values are exact decimals in hundredths (100 stands for the float
\* 1.0, 5 for 0.05); the band bounds of np.arange(1, 0.1, -0.1) are kept in
\* the same unit.  Binary rounding of the band bounds (a few 1e-16) is not
\* modelled.
EXTENDS Integers, Sequences, FiniteSets

VARIABLES
    pc,         \* control position of the modelled call
    script,     \* what the wrapped func does on its successive invocations
    calls,      \* number of invocations of the wrapped func so far
    log,        \* the lines printed by func_wrapper, oldest first
    result,     \* what the call delivered to its caller
    raw,        \* the return value handed to VRepError.create
    errs,       \* the tuple VRepError.create returned
    radius_f,   \* the radius_f argument of get_dilated_depth_buffer
    max_depth,  \* VRepDepthSensor.max_depth
    im,         \* the image get_depth_buffer returned
    acc,        \* the accumulator of get_dilated_depth_buffer
    band,       \* index of the next element of np.arange to iterate
    uppers,     \* history: the value of i of every iteration done
    slices,     \* history: the dilated im_slice of every iteration done
    method,     \* the remote operation the client's caller called
    attempts,   \* history: per run of a remote method's body, the return
                \* codes its remote calls were given
    iters,      \* iterations of get_spherical's own "while True" begun
    entered,    \* the except handlers entered so far
    pending     \* the value or exception travelling between two frames

vars == <<pc, script, calls, log, result, raw, errs,
          radius_f, max_depth, im, acc, band, uppers, slices,
          method, attempts, iters, entered, pending>>

retryVars == <<script, calls, log, result>>
decodeVars == <<raw, errs>>
dilateVars == <<radius_f, max_depth, im, acc, band, uppers, slices>>
remoteVars == <<method, attempts, iters, entered, pending>>

NoValue == [kind |-> "none"]

----------------------------------------------------------------------------
\* VRepError (enum) and VRepError.create

NO_VALUE == 1
TIMEOUT == 2
ILLEGAL_OPMODE == 4
SERVER_ERROR == 8
SPLIT_PROGRESS == 16
LOCAL_ERROR == 32
INIT_ERROR == 64

\* The members of the enum, in definition order (the order of iteration).
VRepErrorShort ==
    << [name |-> "NO_VALUE", value |-> NO_VALUE],
       [name |-> "TIMEOUT", value |-> TIMEOUT],
       [name |-> "ILLEGAL_OPMODE", value |-> ILLEGAL_OPMODE],
       [name |-> "SERVER_ERROR", value |-> SERVER_ERROR],
       [name |-> "SPLIT_PROGRESS", value |-> SPLIT_PROGRESS],
       [name |-> "LOCAL_ERROR", value |-> LOCAL_ERROR] >>

VRepError ==
    << [name |-> "NO_VALUE", value |-> NO_VALUE],
       [name |-> "TIMEOUT", value |-> TIMEOUT],
       [name |-> "ILLEGAL_OPMODE", value |-> ILLEGAL_OPMODE],
       [name |-> "SERVER_ERROR", value |-> SERVER_ERROR],
       [name |-> "SPLIT_PROGRESS", value |-> SPLIT_PROGRESS],
       [name |-> "LOCAL_ERROR", value |-> LOCAL_ERROR],
       [name |-> "INIT_ERROR", value |-> INIT_ERROR] >>

\* Python's a & b on unbounded two's-complement integers, for b >= 0.
RECURSIVE BitAnd(_, _)
BitAndEq(a, b) == IF a = b THEN b ELSE 0

BitAnd(a, b) ==
    IF b = 0 THEN 0
    ELSE (a % 2) * (b % 2) + 2 * BitAnd(a \div 2, b \div 2)

create(return_value) ==
    IF return_value = 0
    THEN << >>
    ELSE SelectSeq(VRepError,
                   LAMBDA err : BitAnd(return_value, err.value) # 0)

----------------------------------------------------------------------------
\* log_and_retry

\* Python's exception classes that occur, each with its base class.
Base(cls) ==
    CASE cls = "ConnectionResetError" -> "ConnectionError"
      [] cls = "ConnectionError" -> "OSError"
      [] cls = "OSError" -> "Exception"
      [] cls = "ValueError" -> "Exception"
      [] OTHER -> "BaseException"

RECURSIVE IsSubclass(_, _)
IsSubclass(cls, of) ==
    IF cls = of THEN TRUE
    ELSE IF cls = "BaseException" THEN FALSE
    ELSE IsSubclass(Base(cls), of)

\* "except ConnectionError as e"
CaughtAny(exc) == IsSubclass(exc.cls, "Exception")

Caught(exc) == IsSubclass(exc.cls, "ConnectionError")

\* print("Error in {}: {}".format(func, e))
LogLine(func, exc) == [func |-> func, detail |-> exc.detail]

PrintedTwice(lines, func, exc) ==
    Append(Append(lines, LogLine(func, exc)), LogLine(func, exc))

Printed(lines, func, exc) == Append(lines, LogLine(func, exc))

Return(v) == [kind |-> "return", val |-> v]
Raise(cls, detail) == [kind |-> "raise", cls |-> cls, detail |-> detail]

----------------------------------------------------------------------------
\* Bounds

MaxCalls == 4
MaxRaw == 260

----------------------------------------------------------------------------
\* func_wrapper around an arbitrary func (SpecRetry)

\* The return codes a failing remote call is given in the retry model.
FailCodes == {SERVER_ERROR, NO_VALUE + SERVER_ERROR}

\* What one invocation of func can do: return a value, raise the
\* ConnectionError the remote methods raise (its argument the decoded return
\* code), or raise something else.
Outcomes ==
    {Return("v1"), Return("v2")}
    \cup {Raise("ConnectionError", create(ret)) : ret \in FailCodes}
    \cup {Raise("ConnectionResetError", "reset"),
          Raise("OSError", "os"),
          Raise("ValueError", "value"),
          Raise("KeyboardInterrupt", "interrupt")}

Scripts == [1..MaxCalls -> Outcomes]

InitRetry ==
    /\ pc = "attempting"
    /\ script \in Scripts
    /\ calls = 0
    /\ log = << >>
    /\ result = NoValue
    /\ raw = 0 /\ errs = << >>
    /\ radius_f = NoValue /\ max_depth = 0
    /\ im = << >> /\ acc = << >> /\ band = 0
    /\ uppers = << >> /\ slices = << >>
    /\ method = "none" /\ attempts = << >> /\ iters = 0
    /\ entered = {} /\ pending = NoValue

\* "return func(self, *args)" when func returns
InvokeReturns ==
    /\ pc = "attempting"
    /\ calls < Len(script)
    /\ script[calls + 1].kind = "return"
    /\ calls' = calls + 1
    /\ result' = script[calls + 1]
    /\ pc' = "done"
    /\ UNCHANGED <<script, log>>
    /\ UNCHANGED decodeVars
    /\ UNCHANGED dilateVars
    /\ UNCHANGED remoteVars

\* func raises and "except ConnectionError" matches: print, continue
InvokeCaught ==
    /\ pc = "attempting"
    /\ calls < Len(script)
    /\ script[calls + 1].kind = "raise"
    /\ Caught(script[calls + 1])
    /\ calls' = calls + 1
    /\ log' = Printed(log, "func", script[calls + 1])
    /\ pc' = "attempting"
    /\ UNCHANGED <<script, result>>
    /\ UNCHANGED decodeVars
    /\ UNCHANGED dilateVars
    /\ UNCHANGED remoteVars

\* func raises and the except clause does not match: the exception leaves
\* func_wrapper
InvokePropagates ==
    /\ pc = "attempting"
    /\ calls < Len(script)
    /\ script[calls + 1].kind = "raise"
    /\ ~Caught(script[calls + 1])
    /\ calls' = calls + 1
    /\ result' = script[calls + 1]
    /\ pc' = "done"
    /\ UNCHANGED <<script, log>>
    /\ UNCHANGED decodeVars
    /\ UNCHANGED dilateVars
    /\ UNCHANGED remoteVars

NextRetry == InvokeReturns \/ InvokeCaught \/ InvokePropagates

SpecRetry == InitRetry /\ [][NextRetry]_vars

----------------------------------------------------------------------------
\* VRepError.create on an arbitrary integer (SpecDecode)

RawCodes == (0 - MaxRaw)..MaxRaw

InitDecode ==
    /\ pc = "decode"
    /\ raw \in RawCodes
    /\ errs = << >>
    /\ script = << >> /\ calls = 0 /\ log = << >> /\ result = NoValue
    /\ radius_f = NoValue /\ max_depth = 0
    /\ im = << >> /\ acc = << >> /\ band = 0
    /\ uppers = << >> /\ slices = << >>
    /\ method = "none" /\ attempts = << >> /\ iters = 0
    /\ entered = {} /\ pending = NoValue

Create ==
    /\ pc = "decode"
    /\ errs' = create(raw)
    /\ pc' = "decoded"
    /\ UNCHANGED raw
    /\ UNCHANGED retryVars
    /\ UNCHANGED dilateVars
    /\ UNCHANGED remoteVars

NextDecode == Create

SpecDecode == InitDecode /\ [][NextDecode]_vars

----------------------------------------------------------------------------
\* VRepDepthSensor.get_depth_buffer and get_dilated_depth_buffer (SpecDilate)

\* Side of the square image get_depth_buffer returns: the stand-in for the
\* 256 of cv2.resize(d, (256, 256)).  The sensor's own resolution is taken
\* equal to it, so that the resize copies the image.
ImgSize == 4
\* Largest radius a radius_f of the model returns, and the number of failed
\* fetches the remote is allowed.
MaxRadius == 2
MaxFetchFail == 1

\* np.arange(1, 0.1, -0.1) and the "i - 0.1" of the loop, in hundredths.
ARANGE_START == 100
ARANGE_STOP == 10
ARANGE_STEP == -10
BAND_WIDTH == 10
\* np.ones_like: the value 1 of a float image, in hundredths.
ONE == 100
\* cv2.dilate with an empty kernel uses a 3 x 3 rectangle.
DEFAULT_KSIZE == 3

\* An image is its row-major buffer, as numpy keeps it: pixel (r, c) of an
\* n x n image is element (r - 1) * n + c.
Pix(n) == 1..(n * n)
Idx(r, c, n) == (r - 1) * n + c
Row(j, n) == (j - 1) \div n + 1
Col(j, n) == ((j - 1) % n) + 1

Max(S) == CHOOSE x \in S : \A y \in S : y <= x

CeilDiv(a, b) == IF a <= 0 THEN 0 ELSE (a + b - 1) \div b

\* np.arange(start, stop, step): ceil((stop - start) / step) values
\* start, start + step, ...  (In binary floating point (0.1 - 1) / -0.1 is
\* exactly 9.0, so the length computed here is the one numpy computes.)
arangeAscending(start, stop, step) ==
    LET n == IF step < 0 THEN CeilDiv(start - stop, 0 - step)
                         ELSE CeilDiv(stop - start, step)
    IN  [k \in 1..n |-> start + (n - k) * step]

arange(start, stop, step) ==
    LET n == IF step < 0 THEN CeilDiv(start - stop, 0 - step)
                         ELSE CeilDiv(stop - start, step)
    IN  [k \in 1..n |-> start + (k - 1) * step]

\* The values of i, in iteration order.
Bands == arange(ARANGE_START, ARANGE_STOP, ARANGE_STEP)

\* np.array(d, np.float32).reshape((res[1], res[0])) of a flat row-major list
reshape(d, rows, cols) ==
    [j \in 1..(rows * cols) |-> d[Idx(Row(j, cols), Col(j, cols), cols)]]

\* np.flipud
flipud(d, rows) ==
    [j \in DOMAIN d |->
        d[Idx(rows + 1 - Row(j, Len(d) \div rows), Col(j, Len(d) \div rows),
              Len(d) \div rows)]]

\* cv2.resize(d, (n, n)) of an n x n image
resize(d, n) == [p \in Pix(n) |-> d[p]]

zeros_like(img) == [p \in DOMAIN img |-> 0]

ones_like(img) == [p \in DOMAIN img |-> ONE]

\* im_slice = im.copy(); im_slice[(im_slice <= i - 0.1) | (im_slice > i)] = 0
Slice(img, i) ==
    [p \in DOMAIN img |->
        IF img[p] <= i - BAND_WIDTH \/ img[p] > i THEN 0 ELSE img[p]]

\* radius_f: a caller-supplied pure function from metres to pixels.  The
\* model's functions return near below cut and far from cut on; the argument
\* is in centimetres.
RadiusCut == 100
Radius(rf, cm) == IF cm < RadiusCut THEN rf.near ELSE rf.far

\* ker_size = 2 * radius_f((i - 0.1) * self.max_depth)
KerSize(rf, i, depth) == 2 * Radius(rf, (i - BAND_WIDTH) * depth)

\* cv2.dilate(im_slice, np.ones((k, k), np.uint8)) for k >= 0: the maximum
\* over the kernel's footprint, the anchor at the kernel's centre (k \div 2),
\* pixels outside the image ignored; an empty kernel (k = 0) stands for the
\* default 3 x 3 one.
dilate(src, k) ==
    LET side == IF k = 0 THEN DEFAULT_KSIZE ELSE k
        a == side \div 2
        n == ImgSize
        Span(x) == {y \in (x - a)..(x + side - 1 - a) : y >= 1 /\ y <= n}
        Foot(j) == {Idx(r, c, n) : r \in Span(Row(j, n)), c \in Span(Col(j, n))}
    IN  [j \in DOMAIN src |-> Max({src[q] : q \in Foot(j)})]

\* np.where(im_slice != 0, im_slice, acc)
whereSwapped(im_slice, old) ==
    [p \in DOMAIN old |-> IF im_slice[p] # 0 THEN old[p] ELSE im_slice[p]]

where(im_slice, old) ==
    [p \in DOMAIN old |-> IF im_slice[p] # 0 THEN im_slice[p] ELSE old[p]]

\* The inputs of the model.
Radii == (0 - 1)..MaxRadius
RadiusFns ==
    {[near |-> r, far |-> r] : r \in Radii}
    \cup {[near |-> r, far |-> 1] : r \in {0 - 1, 0, 2}}
MaxDepths == {2, 5}
BgDepths == {0, 91, 100}
ObjDepths == {5, 15, 100}
NearDepths == {15}
\* The flat buffers the remote returns: a background, at most one pixel of
\* another depth, and at most one near pixel right after it in the buffer.
RawBuffers ==
    {[j \in 1..(ImgSize * ImgSize) |-> bg] : bg \in BgDepths}
    \cup {[j \in 1..(ImgSize * ImgSize) |-> IF j = j1 THEN v1 ELSE bg] :
             bg \in BgDepths, j1 \in 1..(ImgSize * ImgSize), v1 \in ObjDepths}
    \cup {[j \in 1..(ImgSize * ImgSize) |->
             IF j = j1 THEN v1 ELSE IF j = j1 + 1 THEN v2 ELSE bg] :
             bg \in BgDepths, j1 \in 1..(ImgSize * ImgSize - 1),
             v1 \in ObjDepths, v2 \in NearDepths}
FetchFailCodes == {SERVER_ERROR}

InitDilate ==
    /\ pc = "fetch"
    /\ radius_f \in RadiusFns
    /\ max_depth \in MaxDepths
    /\ calls = 0
    /\ log = << >>
    /\ result = NoValue
    /\ script = << >>
    /\ raw = 0 /\ errs = << >>
    /\ im = << >> /\ acc = << >> /\ band = 0
    /\ uppers = << >> /\ slices = << >>
    /\ method = "none" /\ attempts = << >> /\ iters = 0
    /\ entered = {} /\ pending = NoValue

\* get_depth_buffer: the remote call returns ret != 0, the method raises
\* ConnectionError(VRepError.create(ret)), func_wrapper prints and retries.
FetchFails ==
    /\ pc = "fetch"
    /\ Len(log) < MaxFetchFail
    /\ \E ret \in FetchFailCodes :
          LET exc == Raise("ConnectionError", create(ret))
          IN  /\ Caught(exc)
              /\ log' = Printed(log, "get_depth_buffer", exc)
    /\ calls' = calls + 1
    /\ UNCHANGED <<pc, script, result>>
    /\ UNCHANGED decodeVars
    /\ UNCHANGED dilateVars
    /\ UNCHANGED remoteVars

\* get_depth_buffer returns (ret = 0): im is the reshaped, flipped, resized
\* buffer and acc = np.ones_like(im).
FetchReturns ==
    /\ pc = "fetch"
    /\ \E d \in RawBuffers :
       \E shaped \in {reshape(d, ImgSize, ImgSize)} :
       \E flipped \in {flipud(shaped, ImgSize)} :
          /\ im' = resize(flipped, ImgSize)
          /\ acc' = ones_like(im')
    /\ calls' = calls + 1
    /\ band' = 1
    /\ pc' = "band"
    /\ UNCHANGED <<script, log, result>>
    /\ UNCHANGED decodeVars
    /\ UNCHANGED <<radius_f, max_depth, uppers, slices>>
    /\ UNCHANGED remoteVars

\* One iteration of "for i in np.arange(1, 0.1, -0.1)".
BandStep ==
    /\ pc = "band"
    /\ band <= Len(Bands)
    /\ LET i == Bands[band]
           ker_size == KerSize(radius_f, i, max_depth)
       IN  /\ ker_size >= 0
           /\ \E masked \in {Slice(im, i)} :
              \E im_slice \in {dilate(masked, ker_size)} :
                  /\ acc' = where(im_slice, acc)
                  /\ slices' = Append(slices, im_slice)
           /\ uppers' = Append(uppers, i)
    /\ band' = band + 1
    /\ UNCHANGED <<pc, radius_f, max_depth, im>>
    /\ UNCHANGED retryVars
    /\ UNCHANGED decodeVars
    /\ UNCHANGED remoteVars

\* np.ones((ker_size, ker_size)) with ker_size < 0 raises ValueError, which
\* leaves get_dilated_depth_buffer.
BandRaises ==
    /\ pc = "band"
    /\ band <= Len(Bands)
    /\ KerSize(radius_f, Bands[band], max_depth) < 0
    /\ result' = Raise("ValueError", "negative dimensions are not allowed")
    /\ pc' = "raised"
    /\ UNCHANGED <<script, calls, log>>
    /\ UNCHANGED decodeVars
    /\ UNCHANGED dilateVars
    /\ UNCHANGED remoteVars

\* "return acc"
ReturnAcc ==
    /\ pc = "band"
    /\ band > Len(Bands)
    /\ result' = Return(acc)
    /\ pc' = "returned"
    /\ UNCHANGED <<script, calls, log>>
    /\ UNCHANGED decodeVars
    /\ UNCHANGED dilateVars
    /\ UNCHANGED remoteVars

NextDilate ==
    FetchFails \/ FetchReturns \/ BandStep \/ BandRaises \/ ReturnAcc

SpecDilate == InitDilate /\ [][NextDilate]_vars

----------------------------------------------------------------------------
\* Claims about log_and_retry

\* The invocations 1..n of the script raise ConnectionError and invocation
\* n+1 returns.
FailsThenSucceeds(n) ==
    /\ n + 1 <= Len(script)
    /\ \A j \in 1..n : script[j].kind = "raise" /\ script[j].cls = "ConnectionError"
    /\ script[n + 1].kind = "return"

\* C1: when func raises ConnectionError on exactly its first N invocations
\* and returns on invocation N+1, the finished call has returned that value,
\* has invoked func exactly N+1 times and has printed exactly N lines, one per
\* failed attempt.
C1_RetryUntilSuccess ==
    pc = "done" =>
        \A n \in 0..(MaxCalls - 1) :
            FailsThenSucceeds(n) =>
                /\ result = script[n + 1]
                /\ calls = n + 1
                /\ Len(log) = n
                /\ \A j \in 1..n : log[j] = LogLine("func", script[j])

C1_Witness ==
    /\ pc = "done"
    /\ FailsThenSucceeds(2)
    /\ calls = 3
    /\ Len(log) = 2
    /\ result.kind = "return"

NonRecoverable(o) ==
    o.kind = "raise" /\ ~IsSubclass(o.cls, "ConnectionError")

\* C2: when func raises something other than a connection failure on its
\* first invocation, the call ends after exactly one invocation with that
\* same exception, and nothing is printed.
C2_FatalPropagates ==
    (pc \in {"attempting", "done"} /\ NonRecoverable(script[1])) =>
        /\ calls <= 1
        /\ log = << >>
        /\ calls = 1 => (pc = "done" /\ result = script[1])

C2_Witness ==
    /\ pc = "done"
    /\ NonRecoverable(script[1])
    /\ calls = 1
    /\ result.kind = "raise"
    /\ result.cls = "ValueError"

----------------------------------------------------------------------------
\* Claims about VRepError.create

Weights == {NO_VALUE, TIMEOUT, ILLEGAL_OPMODE, SERVER_ERROR,
            SPLIT_PROGRESS, LOCAL_ERROR, INIT_ERROR}

\* Bit w (a power of two) of the two's-complement integer r is set.
BitSet(r, w) == (r \div w) % 2 = 1

\* C3 as stated: the decoded tuple is empty exactly when the code is 0.
C3_EmptyIffZero ==
    pc = "decoded" => (errs = << >> <=> raw = 0)

\* C3 as amended: the decoded tuple is empty exactly when none of the seven
\* weight bits is set in the code, that is when the code is a multiple of 128
\* (0, 128, -128, 256, ...).
C3_EmptyIffNoKnownBit ==
    pc = "decoded" => (errs = << >> <=> raw % (2 * INIT_ERROR) = 0)

C3_Witness ==
    /\ pc = "decoded"
    /\ raw = 2 * INIT_ERROR
    /\ errs = << >>

\* C4: the decoded tuple holds exactly the flags whose weight bit is set in
\* the code, each once, in ascending weight order; bits outside the seven
\* weights add nothing, and every code decodes.
C4_ExactFlags ==
    pc = "decoded" =>
        /\ \A k \in 1..Len(errs) : errs[k].value \in Weights
        /\ \A w \in Weights :
               BitSet(raw, w) <=> (\E k \in 1..Len(errs) : errs[k].value = w)
        /\ \A k \in 1..(Len(errs) - 1) : errs[k].value < errs[k + 1].value
        /\ \A k \in 1..Len(errs) :
               \E m \in 1..Len(VRepError) :
                   VRepError[m].value = errs[k].value /\ VRepError[m] = errs[k]
        /\ raw = 9 => [k \in 1..Len(errs) |-> errs[k].name]
                          = <<"NO_VALUE", "SERVER_ERROR">>
        /\ raw = 127 => Len(errs) = 7

C4_Witness ==
    /\ pc = "decoded"
    /\ raw = 128 + 9
    /\ Len(errs) = 2

----------------------------------------------------------------------------
\* Claims about get_dilated_depth_buffer

AllPix == DOMAIN im
Uniform(img, v) == \A p \in DOMAIN img : img[p] = v
PositiveRadii == radius_f.near > 0 /\ radius_f.far > 0
Abs(x) == IF x >= 0 THEN x ELSE 0 - x
\* Chebyshev distance of the pixels at buffer indices p and q.
Cheb(p, q) ==
    LET dr == Abs(Row(p, ImgSize) - Row(q, ImgSize))
        dc == Abs(Col(p, ImgSize) - Col(q, ImgSize))
    IN  IF dr >= dc THEN dr ELSE dc

\* The image has exactly one pixel of depth 0.05, at p0, and 1.0 elsewhere.
OneNearPixel(p0) ==
    \A p \in AllPix : im[p] = (IF p = p0 THEN 5 ELSE ONE)

\* C5: on a 4 x 4 image with one pixel at 0.05 and the rest at 1.0, with
\* max_depth = 5 and radius 1 everywhere, the returned image holds 0.05 on
\* the 3 x 3 neighbourhood of the near pixel (clipped) and 1.0 elsewhere.
C5_EndToEnd ==
    (/\ pc = "returned"
     /\ ImgSize = 4
     /\ max_depth = 5
     /\ radius_f = [near |-> 1, far |-> 1]) =>
        \A p0 \in AllPix :
            OneNearPixel(p0) =>
                \A p \in AllPix :
                    result.val[p] = (IF Cheb(p, p0) <= 1 THEN 5 ELSE ONE)

\* The ten bands of width 0.1, by their upper bounds, farthest first.
TenBands == [k \in 1..10 |-> 110 - 10 * k]

\* C6: the call that returns has processed exactly the ten bands (0.9, 1.0]
\* down to (0.0, 0.1], each once, in that order, so that every pixel with a
\* value in (0, 1] lies in exactly one processed band.
C6_TenBands ==
    pc = "returned" =>
        /\ uppers = TenBands
        /\ \A p \in AllPix :
               (im[p] > 0 /\ im[p] <= ONE) =>
                   Cardinality({k \in 1..Len(uppers) :
                       im[p] > uppers[k] - 10 /\ im[p] <= uppers[k]}) = 1

\* The iterations whose dilated slice is nonzero at p.
NonzeroAt(p) == {k \in 1..Len(slices) : slices[k][p] # 0}
\* Among them, the one of the nearest band (the lowest depths).
NearestAt(p) ==
    CHOOSE k \in NonzeroAt(p) : \A j \in NonzeroAt(p) : uppers[k] <= uppers[j]

\* C7: in the returned image a pixel claimed by the dilated slices of one or
\* more bands holds the value of the nearest of those bands, and a pixel no
\* dilated slice claims holds the initial 1.0.
C7_NearWins ==
    pc = "returned" =>
        \A p \in AllPix :
            IF NonzeroAt(p) = {}
            THEN result.val[p] = ONE
            ELSE result.val[p] = slices[NearestAt(p)][p]

C7_Witness ==
    /\ pc = "returned"
    /\ \E p \in AllPix :
          /\ Cardinality(NonzeroAt(p)) >= 2
          /\ \E j \in NonzeroAt(p) : slices[j][p] # slices[NearestAt(p)][p]
          /\ result.val[p] = slices[NearestAt(p)][p]
    /\ \E p \in AllPix : NonzeroAt(p) = {} /\ result.val[p] = ONE

\* C8 as stated: an image of zeros comes back unchanged.
C8_AllZeroUnchanged ==
    (pc = "returned" /\ Uniform(im, 0) /\ PositiveRadii) =>
        result.val = im

\* C8 as amended: an image of zeros comes back as an image of 1.0 (no band
\* holds the value 0, so the accumulator keeps its initial value).
C8_AllZeroGivesOnes ==
    (pc = "returned" /\ Uniform(im, 0) /\ PositiveRadii) =>
        Uniform(result.val, ONE)

C8_Witness ==
    /\ pc = "returned"
    /\ Uniform(im, 0)
    /\ PositiveRadii
    /\ radius_f.near # radius_f.far
    /\ Uniform(result.val, ONE)

\* C9: an image of 1.0 comes back unchanged.
C9_AllOneUnchanged ==
    (pc = "returned" /\ Uniform(im, ONE) /\ PositiveRadii) =>
        result.val = im

C9_Witness ==
    /\ pc = "returned"
    /\ Uniform(im, ONE)
    /\ PositiveRadii
    /\ radius_f.near # radius_f.far
    /\ result.val = im

\* C10: a band whose radius is <= 0 is merged undilated, the call does not
\* fail, and the remaining bands are still processed.
C10_NonPositiveRadiusIsIdentity ==
    /\ pc # "raised"
    /\ \A k \in 1..Len(slices) :
           KerSize(radius_f, uppers[k], max_depth) <= 0 =>
               slices[k] = Slice(im, uppers[k])
    /\ pc = "returned" => Len(uppers) = Len(Bands)

----------------------------------------------------------------------------
\* The remote operations of VRepObject, VRepDepthSensor and VRepClient
\* (SpecRemote)

\* The methods under @log_and_retry that issue one remote call and test its
\* return code.
CheckedMethods ==
    {"duplicate", "get_position", "get_velocity", "get_orientation",
     "set_position", "set_orientation", "get_depth_buffer"}

RemoteMethods ==
    CheckedMethods \cup {"get_bbox", "get_spherical", "get_object"}

\* The methods defined under @log_and_retry.
Decorated(m) == m \in CheckedMethods \cup {"get_bbox", "get_spherical"}

\* The return codes the remote gives in the model.
RetCodes == {0, NO_VALUE, SERVER_ERROR}

\* get_bbox reads the object parameters 15 .. 20.
BBOX_FIRST == 15
BBOX_END == 21
\* VRepDepthSensor.__init__ issues three remote calls.
SENSOR_INIT_CALLS == 3

SeqsOf(S, n) == [1..n -> S]

\* The return codes one run of the body of m can be given: one code per
\* remote call the body issues.
RetSeqs(m) ==
    CASE m = "get_bbox" -> SeqsOf(RetCodes, BBOX_END - BBOX_FIRST)
      [] m = "get_object" ->
            {<<r>> : r \in RetCodes \ {0}}
            \cup {<<0, r>> : r \in RetCodes \ {0}}
            \cup {<<0, 0>> \o t : t \in SeqsOf(RetCodes, SENSOR_INIT_CALLS)}
      [] OTHER -> SeqsOf(RetCodes, 1)

\* What one run of the body of m does, given those return codes.
BodyOutcome(m, codes) ==
    CASE m = "get_bbox" -> Return("bbox")
      [] m = "get_object" ->
            IF codes[1] # 0
            THEN Raise("ConnectionError", create(codes[1]))
            ELSE IF codes[2] = 0 THEN Return("VRepDepthSensor")
                                 ELSE Return("VRepObject")
      [] OTHER ->
            IF codes[1] = 0
            THEN Return(m)
            ELSE Raise("ConnectionError", create(codes[1]))

InitRemote ==
    /\ pc = "call"
    /\ method \in RemoteMethods
    /\ attempts = << >>
    /\ iters = 0
    /\ entered = {}
    /\ pending = NoValue
    /\ calls = 0
    /\ log = << >>
    /\ result = NoValue
    /\ script = << >>
    /\ raw = 0 /\ errs = << >>
    /\ radius_f = NoValue /\ max_depth = 0
    /\ im = << >> /\ acc = << >> /\ band = 0
    /\ uppers = << >> /\ slices = << >>

\* The body of a method other than get_spherical runs and returns; the value
\* reaches the caller (through func_wrapper when the method is decorated).
BodyReturns ==
    /\ pc = "call"
    /\ method # "get_spherical"
    /\ calls < MaxCalls
    /\ \E codes \in RetSeqs(method) :
          /\ BodyOutcome(method, codes).kind = "return"
          /\ attempts' = Append(attempts, codes)
          /\ result' = BodyOutcome(method, codes)
    /\ calls' = calls + 1
    /\ pc' = "done"
    /\ UNCHANGED <<script, log, method, iters, entered, pending>>
    /\ UNCHANGED decodeVars
    /\ UNCHANGED dilateVars

\* The body raises: func_wrapper of a decorated method prints and retries
\* when "except ConnectionError" matches; otherwise the exception reaches the
\* caller.
BodyRaises ==
    /\ pc = "call"
    /\ method # "get_spherical"
    /\ calls < MaxCalls
    /\ \E codes \in RetSeqs(method) :
          LET exc == BodyOutcome(method, codes)
          IN  /\ exc.kind = "raise"
              /\ attempts' = Append(attempts, codes)
              /\ IF Decorated(method) /\ Caught(exc)
                 THEN /\ log' = Printed(log, method, exc)
                      /\ entered' = entered \cup {"func_wrapper"}
                      /\ UNCHANGED <<pc, result>>
                 ELSE /\ result' = exc
                      /\ pc' = "done"
                      /\ UNCHANGED <<log, entered>>
    /\ calls' = calls + 1
    /\ UNCHANGED <<script, method, iters, pending>>
    /\ UNCHANGED decodeVars
    /\ UNCHANGED dilateVars

\* func_wrapper of get_spherical invokes it; its "while True" begins.
SphericalInvoked ==
    /\ pc = "call"
    /\ method = "get_spherical"
    /\ calls' = calls + 1
    /\ iters' = iters + 1
    /\ pc' = "position"
    /\ UNCHANGED <<script, log, result, method, attempts, entered, pending>>
    /\ UNCHANGED decodeVars
    /\ UNCHANGED dilateVars

\* "pos = self.get_position(other)": func_wrapper of get_position runs the
\* body of get_position once.
PositionAttempt ==
    /\ pc = "position"
    /\ Len(attempts) < MaxCalls
    /\ \E codes \in RetSeqs("get_position") :
          LET out == BodyOutcome("get_position", codes)
          IN  /\ attempts' = Append(attempts, codes)
              /\ IF out.kind = "return"
                 THEN /\ pending' = out
                      /\ pc' = "compute"
                      /\ UNCHANGED <<log, entered>>
                 ELSE IF Caught(out)
                 THEN /\ log' = Printed(log, "get_position", out)
                      /\ entered' = entered \cup {"func_wrapper of get_position"}
                      /\ UNCHANGED <<pc, pending>>
                 ELSE /\ pending' = out
                      /\ pc' = "spherical except"
                      /\ UNCHANGED <<log, entered>>
    /\ UNCHANGED <<script, calls, result, method, iters>>
    /\ UNCHANGED decodeVars
    /\ UNCHANGED dilateVars

\* The rest of the try block: "pos += offset", the norm, the angles, "return".
\* "pos += offset" raises ValueError when offset does not broadcast to the
\* three coordinates, and math.asin raises ValueError when rounding puts
\* pos[2] / dist outside [-1, 1].
SphericalComputes ==
    /\ pc = "compute"
    /\ \E domain_error \in BOOLEAN :
          IF domain_error
          THEN /\ pending' = Raise("ValueError", "math domain error")
               /\ pc' = "spherical except"
               /\ UNCHANGED result
          ELSE /\ result' = Return("get_spherical")
               /\ pc' = "done"
               /\ UNCHANGED pending
    /\ UNCHANGED <<script, calls, log, method, attempts, iters, entered>>
    /\ UNCHANGED decodeVars
    /\ UNCHANGED dilateVars

\* get_spherical's own "except ConnectionError: continue"
SphericalExcept ==
    /\ pc = "spherical except"
    /\ IF Caught(pending)
       THEN /\ entered' = entered \cup {"get_spherical"}
            /\ iters' = iters + 1
            /\ pc' = "position"
       ELSE /\ pc' = "wrapper except"
            /\ UNCHANGED <<entered, iters>>
    /\ UNCHANGED <<script, calls, log, result, method, attempts, pending>>
    /\ UNCHANGED decodeVars
    /\ UNCHANGED dilateVars

\* "except ConnectionError" of the func_wrapper around get_spherical
WrapperExcept ==
    /\ pc = "wrapper except"
    /\ IF Caught(pending)
       THEN /\ log' = Printed(log, "get_spherical", pending)
            /\ entered' = entered \cup {"func_wrapper of get_spherical"}
            /\ pc' = "call"
            /\ UNCHANGED result
       ELSE /\ result' = pending
            /\ pc' = "done"
            /\ UNCHANGED <<log, entered>>
    /\ UNCHANGED <<script, calls, method, attempts, iters, pending>>
    /\ UNCHANGED decodeVars
    /\ UNCHANGED dilateVars

NextRemote ==
    \/ BodyReturns
    \/ BodyRaises
    \/ SphericalInvoked
    \/ PositionAttempt
    \/ SphericalComputes
    \/ SphericalExcept
    \/ WrapperExcept

SpecRemote == InitRemote /\ [][NextRemote]_vars

----------------------------------------------------------------------------
\* Claims about the remote operations

\* C11: a ConnectionError carrying a decoded ErrorSet never reaches the
\* caller of a remote operation (the decorated methods and
\* VRepClient.get_object): a finished call has not raised one.
C11_NoConnectionErrorSurfaces ==
    pc = "done" =>
        ~(result.kind = "raise" /\ result.cls = "ConnectionError")

\* An attempt in which every remote call returned 0.
AllZero(codes) == \A k \in DOMAIN codes : codes[k] = 0

\* C16: a decorated method that has returned a value to its caller did so in
\* an attempt whose remote calls all returned 0, and every earlier attempt
\* (one with a nonzero code) was caught and logged.
C16_ReturnsOnlyAfterCleanAttempt ==
    (/\ pc = "done"
     /\ method \in CheckedMethods \cup {"get_bbox"}
     /\ result.kind = "return") =>
        /\ AllZero(attempts[Len(attempts)])
        /\ Len(log) = Len(attempts) - 1

\* The position fetch failed on its first n attempts and succeeded on the
\* next one.
PositionFailsThenSucceeds(n) ==
    /\ Len(attempts) = n + 1
    /\ \A j \in 1..n : attempts[j][1] # 0
    /\ attempts[n + 1][1] = 0

\* C17: in get_spherical neither its own "except ConnectionError" nor the
\* handler of the wrapper around it is ever entered; when the position fetch
\* fails N times and then succeeds, the body of get_spherical has run once
\* (one invocation, one loop iteration), the remote position call was issued
\* N+1 times and N lines were printed, all by the wrapper of get_position.
C17_NestedRetry ==
    method = "get_spherical" =>
        /\ "get_spherical" \notin entered
        /\ "func_wrapper of get_spherical" \notin entered
        /\ pc = "done" =>
              \A n \in 0..(MaxCalls - 1) :
                  PositionFailsThenSucceeds(n) =>
                      /\ calls = 1
                      /\ iters = 1
                      /\ Len(attempts) = n + 1
                      /\ Len(log) = n
                      /\ \A k \in 1..Len(log) : log[k].func = "get_position"

C17_Witness ==
    /\ method = "get_spherical"
    /\ pc = "done"
    /\ result.kind = "return"
    /\ PositionFailsThenSucceeds(2)
    /\ Len(log) = 2
    /\ entered = {"func_wrapper of get_position"}

----------------------------------------------------------------------------
\* Further claims about get_dilated_depth_buffer

\* The pixels of an image that are not 0.
Nonzero(img) == {p \in DOMAIN img : img[p] # 0}

\* C12: for the band just dilated with radius r1 >= 0 (r1 = 0 included), the
\* same band dilated with any radius r2 >= r1 has a superset of its nonzero
\* pixels.
C12_MonotonicRadius ==
    (Len(slices) >= 1 /\ pc # "raised") =>
        LET k == Len(slices)
            i == uppers[k]
            r1 == Radius(radius_f, (i - BAND_WIDTH) * max_depth)
        IN  r1 >= 0 =>
                \A r2 \in r1..MaxRadius :
                    Nonzero(slices[k]) \subseteq
                        Nonzero(dilate(Slice(im, i), 2 * r2))

\* C14: in the returned image no pixel whose input value v lies in (0, 1]
\* holds a value greater than v.
C14_NeverFartherThanInput ==
    pc = "returned" =>
        \A p \in AllPix :
            (im[p] > 0 /\ im[p] <= ONE) => result.val[p] <= im[p]

NoRemoteAfterFetch ==
    pc # "fetch" => (calls' = calls /\ log' = log)

\* A failed fetch is retried: the call stays at the fetch, one remote call
\* and one line further.
FailedFetchRetried ==
    (pc = "fetch" /\ pc' = "fetch") =>
        (calls' = calls + 1 /\ Len(log') = Len(log) + 1)

PositiveKernels ==
    \A k \in 1..Len(uppers) : KerSize(radius_f, uppers[k], max_depth) > 0

\* The values of the input image within (0, 1].
InputValues == {im[q] : q \in {x \in AllPix : im[x] > 0 /\ im[x] <= ONE}}

\* C18: with kernels of positive size, after every band's merge and at the
\* return every pixel of acc holds 1.0 or a value of the input image within
\* (0, 1], never 0; and a pixel whose input value lies in a band already
\* processed holds a value greater than 0 and at most that band's upper
\* bound.
C18_AccumulatorInvariant ==
    (pc \in {"band", "returned"} /\ PositiveKernels) =>
        /\ \A p \in AllPix :
               /\ acc[p] \in {ONE} \cup InputValues
               /\ acc[p] # 0
        /\ \A p \in AllPix : \A k \in 1..Len(uppers) :
               (im[p] > uppers[k] - BAND_WIDTH /\ im[p] <= uppers[k]) =>
                   (acc[p] > 0 /\ acc[p] <= uppers[k])
        /\ pc = "returned" => result.val = acc

C18_Witness ==
    /\ pc = "returned"
    /\ PositiveKernels
    /\ Len(uppers) = Len(Bands)
    /\ \E p \in AllPix : acc[p] # ONE /\ acc[p] # im[p] /\ im[p] = 0
    /\ \E p \in AllPix : im[p] > ARANGE_STOP /\ acc[p] < im[p]
    /\ \E p \in AllPix : acc[p] = ONE

----------------------------------------------------------------------------
\* The retry loop as a state machine

\* "while True" keeps running: an invocation that can be made is made.
SpecRetryFair == InitRetry /\ [][NextRetry]_vars /\ WF_vars(NextRetry)

Recoverable(o) ==
    o.kind = "raise" /\ IsSubclass(o.cls, "ConnectionError")

\* func fails recoverably on every invocation.
AlwaysRecoverable == \A j \in DOMAIN script : Recoverable(script[j])

\* One step of the loop: it leaves ATTEMPTING only when the current
\* invocation returned or failed non-recoverably, and a recoverable failure
\* keeps it in ATTEMPTING, one invocation and one line further.
RetryStep ==
    /\ pc = "attempting"
    /\ calls' = calls + 1
    /\ IF Recoverable(script[calls + 1])
       THEN pc' = "attempting" /\ Len(log') = Len(log) + 1
       ELSE pc' = "done" /\ log' = log /\ result' = script[calls + 1]

\* C13: the retry loop has the two states ATTEMPTING and DONE; it moves to
\* DONE only on a return or a non-recoverable failure of the current
\* invocation and stays in ATTEMPTING on a recoverable one, whatever the
\* number of failures so far; when func fails recoverably on every
\* invocation the loop never reaches DONE and uses every invocation there
\* is, printing one line for each; when some invocation does not fail
\* recoverably the loop reaches DONE.
C13_TwoStateLoop ==
    /\ [](pc \in {"attempting", "done"})
    /\ [][RetryStep]_vars
    /\ [](AlwaysRecoverable => pc = "attempting" /\ Len(log) = calls)
    /\ AlwaysRecoverable ~> (calls = MaxCalls /\ Len(log) = MaxCalls)
    /\ (~AlwaysRecoverable) ~> (pc = "done")

C13_Witness ==
    /\ pc = "attempting"
    /\ AlwaysRecoverable
    /\ calls = MaxCalls
    /\ Len(log) = MaxCalls

====
